---- MODULE Spec2Model ----
(***************************************************************************)
(* Bolidozor snapshot browser: the HTTP connector of bzpost.py (existence  *)
(* cache, probing, hour-by-hour snapshot discovery) and the range-covering *)
(* SnapshotCollection of bzbrowser.py (request inbox, coordinator thread). *)
(*                                                                         *)
(* Time is counted in whole seconds scaled down: an Instant is a natural   *)
(* number, an hour is HourLen of them, and the calendar above the hour is  *)
(* HoursPerDay / DaysPerMonth / MonthsPerYear.  A file name carries a      *)
(* second and a sub-second field, <<second, millisecond>>.                 *)
(***************************************************************************)
EXTENDS Naturals, Integers, Sequences, FiniteSets, TLC

\* ------------------------------------------------------------- bounds
HourLen == 2
HoursPerDay == 2
DaysPerMonth == 2
MonthsPerYear == 2
LastFileTime == 7
MaxOps == 2

\* Python's None, where a range or a request is expected.
None == <<>>

\* self.connection is None.
NoConnection == "None"

Kinds == {"snapshots", "meteors"}

\* The arguments the callers of cover() pass, in half seconds (main passes
\* floats): ranges that overlap, touch and lie apart, an empty one and a
\* reversed one.
CoverCalls ==
    {<<2, 8>>, <<7, 13>>, <<2, 7>>, <<8, 13>>, <<8, 8>>, <<13, 7>>}

\* The arguments main() passes to cover(): a window of fixed width around
\* the time shown, before and after the wheel moved it.
WindowCalls == {<<2, 8>>, <<7, 13>>}

\* The hours a caller names when it uses the connector directly.
ProbeHours == {1}

\* The ranges a caller of get_snapshots passes (mkmosaic.py passes two
\* datetimes): within one hour, across two hours, from the start of the first
\* hour to the start of the third, empty and reversed.
DiscoverCalls == {<<2, 3>>, <<1, 3>>, <<0, 2 * HourLen>>, <<3, 3>>, <<5, 2>>}

\* ------------------------------------------------------------- time
\* int(x) of a non-negative float given in half seconds: truncation.
ToInt(x) == x \div 2

\* normalize_time of an int: the Instant of that unix timestamp.
normalize_time(value) == value

\* _get_hour: the hour bucket an Instant lies in.
get_hour(time) == normalize_time(time) \div HourLen

normalize_day(hour) == hour \div HoursPerDay

normalize_month(hour) == normalize_day(hour) \div DaysPerMonth

normalize_year(hour) == normalize_month(hour) \div MonthsPerYear

\* ------------------------------------------------------------- archive
\* The files the archive publishes: one name per second, sub-second 123.
FullArchive == {<<t, 123>> : t \in 0..LastFileTime}

\* The hour directory of the archive a file lies in.
HourOfFile(name) == name[1] \div HourLen

\* An archive with one populated hour directory, holding one file, stamped
\* with the first second of the hour and sub-second 123.
FixtureArchive == {<<HourLen, 123>>}

Archives == {FullArchive, FixtureArchive}

\* The six datetime fields value_fn passes: the second, no sub-second field.
SnapshotTime(name) == name[1]

\* The Instant value_fn builds, in milliseconds: datetime() is given six
\* fields, so its microsecond is 0.
Milliseconds(time) == time * 1000

HourUrl(hour) == [kind |-> "snapshots", level |-> "hour", key |-> hour]

SnapshotEntry(name, hour) ==
    [file_name |-> name, time |-> SnapshotTime(name), url |-> <<HourUrl(hour), name>>]

\* What SNAPSHOT_RE finds in the listing of one hour directory.
Listing(arch, hour) == {SnapshotEntry(f, hour) : f \in {g \in arch : HourOfFile(g) = hour}}

\* ------------------------------------------------------------- client
\* What one GET can end in: status 200, another status, a broken status
\* line, or any other failure (of the transport; or no connection at all).
Outcomes == {"200", "non200", "BadStatusLine", "error"}

\* What the requests of one _probe_hour end in: outs[1], outs[2], outs[3] for
\* the year, the month and the day.  A request that is never made (the one
\* before it did not answer 200) is written "200".
ProbeOutcomes ==
    {o \in [1..3 -> Outcomes] :
        /\ o[1] # "200" => (o[2] = "200" /\ o[3] = "200")
        /\ o[2] # "200" => o[3] = "200"}

\* What the requests of one hour of get_snapshots end in: outs[4] for the
\* listing of the hour, outs[1..3] for the probe that follows another status.
HourOutcomes ==
    {o \in [1..4 -> Outcomes] :
        /\ [i \in 1..3 |-> o[i]] \in ProbeOutcomes
        /\ o[4] # "non200" => \A i \in 1..3 : o[i] = "200"}

\* Without a connection every request fails: self.connection is None.
Answers(conn, outs) == IF conn = NoConnection THEN {[i \in DOMAIN o |-> "error"] : o \in outs} ELSE outs

\* request(): what the caller sees for an outcome.
request(out, throw) ==
    IF out = "200" THEN "ok"
    ELSE IF out = "non200" THEN (IF throw THEN "ConnectorException" ELSE "status")
    ELSE out

connect(conn) == "open"

close(conn) == NoConnection

\* ------------------------------------------------------------- cache
VARIABLES existing_years, existing_months, existing_days,
          missing_years, missing_months, missing_days

Cache == [ey |-> existing_years, em |-> existing_months, ed |-> existing_days,
          my |-> missing_years, mm |-> missing_months, md |-> missing_days]

\* _is_day_missing without its last line: years and months only.
is_day_missing_coarse(c, hour, type) ==
    \/ <<normalize_year(hour), type>> \in c.my
    \/ <<normalize_month(hour), type>> \in c.mm

is_day_missing(c, hour, type) ==
    \/ <<normalize_year(hour), type>> \in c.my
    \/ <<normalize_month(hour), type>> \in c.mm
    \/ <<normalize_day(hour), type>> \in c.md

\* _add_missing_day that assigns the set instead of adding to it.
add_missing_day_only(c, hour, type) == [c EXCEPT !.md = {<<normalize_day(hour), type>>}]

add_missing_day(c, hour, type) == [c EXCEPT !.md = @ \cup {<<normalize_day(hour), type>>}]
add_missing_month(c, hour, type) == [c EXCEPT !.mm = @ \cup {<<normalize_month(hour), type>>}]
add_missing_year(c, hour, type) == [c EXCEPT !.my = @ \cup {<<normalize_year(hour), type>>}]
\* _add_existing_day that records nothing.
add_existing_day_lost(c, hour, type) == c

\* _add_existing_year that records nothing.
add_existing_year_lost(c, hour, type) == c

add_existing_day(c, hour, type) == [c EXCEPT !.ed = @ \cup {<<normalize_day(hour), type>>}]
add_existing_month(c, hour, type) == [c EXCEPT !.em = @ \cup {<<normalize_month(hour), type>>}]
add_existing_year(c, hour, type) == [c EXCEPT !.ey = @ \cup {<<normalize_year(hour), type>>}]

\* The URLs _probe_hour asks for: built with the default type, whatever
\* type the probe was called with.
get_year_url(hour) == [kind |-> "snapshots", level |-> "year", key |-> normalize_year(hour)]
get_month_url(hour) == [kind |-> "snapshots", level |-> "month", key |-> normalize_month(hour)]
get_day_url(hour) == [kind |-> "snapshots", level |-> "day", key |-> normalize_day(hour)]

\* The result of a step of the connector: the cache, the requests made, in
\* order, the exception that left it ("none" when it returned) and the
\* entries it yielded.
Res(c, fetches, exc, yielded) ==
    [c |-> c, fetches |-> fetches, exc |-> exc, yielded |-> yielded]

Fetch(url, out) == [url |-> url, out |-> out]

\* _probe_hour from the day level on without the test of line 244.
probe_day_unchecked(c, hour, type, outs, fs) ==
    IF <<normalize_day(hour), type>> \notin c.ed THEN
        LET r == request(outs[3], FALSE)
            f == Append(fs, Fetch(get_day_url(hour), outs[3]))
        IN  IF r = "ok" THEN Res(add_existing_day(c, hour, type), f, "none", {})
            ELSE IF r = "status" THEN Res(add_missing_day(c, hour, type), f, "none", {})
            ELSE Res(c, f, r, {})
    ELSE Res(c, fs, "none", {})

\* _probe_hour from the day level on; outs[3] is what the day request ends in.
probe_day(c, hour, type, outs, fs) ==
    IF <<normalize_day(hour), type>> \in c.md THEN Res(c, fs, "none", {})
    ELSE IF <<normalize_day(hour), type>> \notin c.ed THEN
        LET r == request(outs[3], FALSE)
            f == Append(fs, Fetch(get_day_url(hour), outs[3]))
        IN  IF r = "ok" THEN Res(add_existing_day(c, hour, type), f, "none", {})
            ELSE IF r = "status" THEN Res(add_missing_day(c, hour, type), f, "none", {})
            ELSE Res(c, f, r, {})
    ELSE Res(c, fs, "none", {})

\* _probe_hour from the month level on; outs[2] is what the month request ends in.
probe_month(c, hour, type, outs, fs) ==
    IF <<normalize_month(hour), type>> \in c.mm THEN Res(c, fs, "none", {})
    ELSE IF <<normalize_month(hour), type>> \notin c.em THEN
        LET r == request(outs[2], FALSE)
            f == Append(fs, Fetch(get_month_url(hour), outs[2]))
        IN  IF r = "ok" THEN probe_day(add_existing_month(c, hour, type), hour, type, outs, f)
            ELSE IF r = "status" THEN Res(add_missing_month(c, hour, type), f, "none", {})
            ELSE Res(c, f, r, {})
    ELSE probe_day(c, hour, type, outs, fs)

\* _probe_hour(hour, type); outs[1] is what the year request ends in.
probe_hour(c, hour, type, outs) ==
    IF <<normalize_year(hour), type>> \in c.my THEN Res(c, <<>>, "none", {})
    ELSE IF <<normalize_year(hour), type>> \notin c.ey THEN
        LET r == request(outs[1], FALSE)
            f == <<Fetch(get_year_url(hour), outs[1])>>
        IN  IF r = "ok" THEN probe_month(add_existing_year(c, hour, type), hour, type, outs, f)
            ELSE IF r = "status" THEN Res(add_missing_year(c, hour, type), f, "none", {})
            ELSE Res(c, f, r, {})
    ELSE probe_month(c, hour, type, outs, <<>>)

\* _get_hours(day, type), run to its end by the caller; outs[1] is what the
\* listing request ends in.
get_hours(c, hour, type, outs) ==
    IF is_day_missing(c, hour, type) THEN Res(c, <<>>, "none", {})
    ELSE LET r == request(outs[1], TRUE)
             f == <<Fetch([kind |-> type, level |-> "day", key |-> normalize_day(hour)],
                          outs[1])>>
         IN  IF r = "ok" THEN Res(c, f, "none", {})
             ELSE IF r = "ConnectorException" THEN Res(add_missing_day(c, hour, type), f, r, {})
             ELSE Res(c, f, r, {})

\* _get_snapshots_in_hour(hour), run to its end; outs[4] is what the listing
\* request ends in.  An exception of the probe replaces the one it handles.
get_snapshots_in_hour(c, arch, hour, outs) ==
    IF is_day_missing(c, hour, "snapshots") THEN Res(c, <<>>, "none", {})
    ELSE LET r == request(outs[4], TRUE)
             f == <<Fetch(HourUrl(hour), outs[4])>>
         IN  IF r = "ok" THEN Res(c, f, "none", Listing(arch, hour))
             ELSE IF r = "ConnectorException" THEN
                 LET p == probe_hour(c, hour, "snapshots", outs)
                 IN  Res(p.c, f \o p.fetches, IF p.exc = "none" THEN r ELSE p.exc, {})
             ELSE Res(c, f, r, {})

\* ------------------------------------------------------------- collector
VARIABLES connection, archive,
          cover_reqs, covered_range, pc, req, todo, new_range, gen,
          sunk, resunk,
          ops, enq_log, taken, processed, wakes, reconnects, discovers, last,
          sink, pool_tasks, pool_busy, probed

\* The sink the collection was built with, and the pool of main(): the
\* tasks handed to it that no worker has taken, and the workers at work.
pool_vars == <<sink, pool_tasks, pool_busy>>

cache_vars == <<existing_years, existing_months, existing_days,
                missing_years, missing_months, missing_days>>

vars == <<cache_vars, connection, archive,
          cover_reqs, covered_range, pc, req, todo, new_range, gen,
          sunk, resunk, ops, enq_log, taken, processed, wakes, reconnects,
          discovers, last, pool_vars, probed>>

SetCache(c) ==
    /\ existing_years' = c.ey
    /\ existing_months' = c.em
    /\ existing_days' = c.ed
    /\ missing_years' = c.my
    /\ missing_months' = c.mm
    /\ missing_days' = c.md

\* What the last step of the connector, or the last request processed, did:
\* for the properties that speak of one such step.
Event(op) ==
    [op |-> op, hour |-> 0, kind |-> "snapshots", before |-> Cache, probed |-> probed,
     fetches |-> <<>>,
     yielded |-> {}, exc |-> "none", fate |-> "next", from |-> 0, to |-> 0,
     old |-> None, req |-> None, calls |-> <<>>, hours |-> <<>>, batches |-> <<>>,
     caches |-> <<>>]

\* bounding_range that forgets the range covered so far.
bounding_range_latest(m1, m2) == <<m2[1], m2[2]>>

bounding_range(m1, m2) ==
    <<IF m1[1] <= m2[1] THEN m1[1] ELSE m2[1], IF m1[2] >= m2[2] THEN m1[2] ELSE m2[2]>>

Init ==
    /\ existing_years = {} /\ existing_months = {} /\ existing_days = {}
    /\ missing_years = {} /\ missing_months = {} /\ missing_days = {}
    /\ connection = connect(NoConnection)
    /\ archive \in Archives
    /\ cover_reqs = <<>>
    /\ covered_range = None
    /\ pc = "get"
    /\ req = None
    /\ todo = <<>>
    /\ new_range = None
    /\ gen = None
    /\ sunk = {} /\ resunk = {}
    /\ ops = 0 /\ enq_log = <<>> /\ taken = <<>> /\ processed = <<>>
    /\ wakes = 0 /\ reconnects = FALSE
    /\ discovers = <<>>
    /\ probed = {}
    /\ last = Event("init")
    /\ sink = "collect"
    /\ pool_tasks = 0 /\ pool_busy = 0

\* ------------------------------------------------------------- callers
\* SnapshotCollection.cover(a, b), from any thread.
cover(x, y) ==
    /\ ops < MaxOps
    /\ ops' = ops + 1
    /\ cover_reqs' = Append(cover_reqs, <<ToInt(x), ToInt(y), Len(enq_log) + 1>>)
    /\ enq_log' = Append(enq_log, <<ToInt(x), ToInt(y)>>)
    /\ UNCHANGED last
    /\ UNCHANGED <<pool_vars, probed>>
    /\ UNCHANGED <<cache_vars, connection, archive, covered_range, pc, req, todo,
                   new_range, gen, sunk, resunk, taken, processed, wakes, reconnects, discovers>>

\* The connector is used by one thread at a time: a caller of its own
\* methods runs while the coordinator is blocked on the inbox, or gone.
ConnectorIdle == pc \in {"get", "dead"}

\* The (day, kind) pairs of the probes that returned among the requests
\* fetches of a get_snapshots call, or of one hour of it, that ended with exc:
\* a probe follows every refused listing, and returned unless it is the one
\* of the last hour and raised.
ProbesReturned(fetches, exc) ==
    {<<normalize_day(fetches[i].url.key), "snapshots">> :
        i \in {j \in 1..Len(fetches) :
                  /\ fetches[j].url.level = "hour"
                  /\ fetches[j].out = "non200"
                  /\ \/ exc \in {"none", "ConnectorException"}
                     \/ \E k \in (j + 1)..Len(fetches) : fetches[k].url.level = "hour"}}

\* HTTPConnector._probe_hour(hour, type), called directly.
ProbeCall(hour, type) ==
    /\ ops < MaxOps
    /\ ConnectorIdle
    /\ \E outs \in Answers(connection, ProbeOutcomes) :
        LET r == probe_hour(Cache, hour, type, outs)
        IN  /\ SetCache(r.c)
            /\ last' = [Event("probe") EXCEPT !.hour = hour, !.kind = type,
                                              !.fetches = r.fetches, !.exc = r.exc]
            /\ probed' = IF r.exc = "none"
                         THEN probed \cup {<<normalize_day(hour), type>>}
                         ELSE probed
    /\ ops' = ops + 1
    /\ UNCHANGED pool_vars
    /\ UNCHANGED <<connection, archive, cover_reqs, covered_range, pc, req, todo,
                   new_range, gen, sunk, resunk, enq_log, taken, processed, wakes, reconnects, discovers>>

\* HTTPConnector._get_hours(day, type), called directly and run to its end.
GetHoursCall(hour, type) ==
    /\ ops < MaxOps
    /\ ConnectorIdle
    /\ \E outs \in Answers(connection, [1..1 -> Outcomes]) :
        LET r == get_hours(Cache, hour, type, outs)
        IN  /\ SetCache(r.c)
            /\ last' = [Event("get_hours") EXCEPT !.hour = hour, !.kind = type,
                                                  !.fetches = r.fetches, !.exc = r.exc]
    /\ ops' = ops + 1
    /\ UNCHANGED <<pool_vars, probed>>
    /\ UNCHANGED <<connection, archive, cover_reqs, covered_range, pc, req, todo,
                   new_range, gen, sunk, resunk, enq_log, taken, processed, wakes, reconnects, discovers>>

\* ------------------------------------------------------------- coordinator
\* Line 54: the blocking get().
Get ==
    /\ pc = "get"
    /\ cover_reqs # <<>>
    /\ req' = Head(cover_reqs)
    /\ cover_reqs' = Tail(cover_reqs)
    /\ taken' = Append(taken, Head(cover_reqs)[3])
    /\ pc' = "empty"
    /\ wakes' = wakes + 1
    /\ UNCHANGED last
    /\ UNCHANGED <<pool_vars, probed>>
    /\ UNCHANGED <<cache_vars, connection, archive, covered_range, todo, new_range,
                   gen, sunk, resunk, ops, enq_log, processed, reconnects, discovers>>

\* Line 57 without its assignment: the first request taken stays in hand.
retain_first(held, got) == held

\* Line 57: req = get_nowait(); the request in hand is replaced.
retain(held, got) == got

\* Line 56, inbox not empty, and line 57.  get_nowait() on an empty inbox
\* raises Queue.Empty, which nothing catches.
DrainTake ==
    /\ pc = "get_nowait"
    /\ IF cover_reqs = <<>>
       THEN /\ pc' = "dead"
            /\ UNCHANGED <<req, cover_reqs, taken>>
       ELSE /\ req' = retain(req, Head(cover_reqs))
            /\ cover_reqs' = Tail(cover_reqs)
            /\ taken' = Append(taken, Head(cover_reqs)[3])
            /\ pc' = "empty"
    /\ UNCHANGED last
    /\ UNCHANGED <<pool_vars, probed>>
    /\ UNCHANGED <<cache_vars, connection, archive, covered_range, todo, new_range,
                   gen, sunk, resunk, ops, enq_log, processed, wakes, reconnects, discovers>>

\* Line 56 with a test that never finds the inbox empty.
empty_never(q) == FALSE

\* Queue.empty().
empty(q) == q = <<>>

\* Line 56: while not empty().
DrainCheck ==
    /\ pc = "empty"
    /\ ~empty(cover_reqs)
    /\ pc' = "get_nowait"
    /\ UNCHANGED last
    /\ UNCHANGED <<pool_vars, probed>>
    /\ UNCHANGED <<cache_vars, connection, archive, cover_reqs, covered_range, req, todo,
                   new_range, gen, sunk, resunk, ops, enq_log, taken, processed, wakes, reconnects, discovers>>

\* Lines 59-66 with the request covered anew whatever is covered already.
Plan_anew(covered, r) ==
    [calls |-> <<<<r[1], r[2]>>>>,
     range |-> IF covered = None THEN <<r[1], r[2]>>
               ELSE <<IF covered[1] <= r[1] THEN covered[1] ELSE r[1],
                      IF covered[2] >= r[2] THEN covered[2] ELSE r[2]>>]

\* Lines 59-66 without line 64: what lies before the covered range is left out.
Plan_after_only(covered, r) ==
    IF covered = None
    THEN [calls |-> <<<<r[1], r[2]>>>>, range |-> <<r[1], r[2]>>]
    ELSE LET n == bounding_range(covered, r)
         IN  [calls |-> <<<<covered[2], n[2]>>>>, range |-> n]

\* Lines 59-66: the _cover calls the request leads to, and the range to
\* record after them.
Plan(covered, r) ==
    IF covered = None
    THEN [calls |-> <<<<r[1], r[2]>>>>, range |-> <<r[1], r[2]>>]
    ELSE LET n == bounding_range(covered, r)
         IN  [calls |-> <<<<n[1], covered[1]>>, <<covered[2], n[2]>>>>, range |-> n]

\* Line 56 finds the inbox empty: the request in hand is the one processed.
Dispatch ==
    /\ pc = "empty"
    /\ empty(cover_reqs)
    /\ todo' = Plan(covered_range, req).calls
    /\ new_range' = Plan(covered_range, req).range
    /\ processed' = Append(processed, req[3])
    /\ discovers' = <<>>
    /\ pc' = "call"
    /\ UNCHANGED last
    /\ UNCHANGED <<pool_vars, probed>>
    /\ UNCHANGED <<cache_vars, connection, archive, cover_reqs, covered_range, req,
                   gen, sunk, resunk, ops, enq_log, taken, wakes, reconnects>>

\* Line 413 with > for >=: an empty range is let through.
InvalidRange_strict(from_date, to_date) == from_date > to_date

\* Line 413: the range get_snapshots refuses with ValueError.
InvalidRange(from_date, to_date) == from_date >= to_date

\* Lines 38-44 and 407-421: _cover(a, b) up to the first hour of get_snapshots.
CoverCall ==
    /\ pc = "call"
    /\ todo # <<>>
    /\ LET a == Head(todo)[1]
           b == Head(todo)[2]
       IN  IF ~(a < b)
           THEN /\ todo' = Tail(todo)
                /\ UNCHANGED <<pc, gen, discovers>>
           ELSE /\ discovers' = Append(discovers, <<normalize_time(a), normalize_time(b)>>)
                /\ todo' = todo
                /\ IF InvalidRange(normalize_time(a), normalize_time(b))
                   THEN pc' = "dead" /\ gen' = None
                   ELSE /\ pc' = "hours"
                        /\ gen' = [from |-> normalize_time(a), to |-> normalize_time(b),
                                   current |-> get_hour(normalize_time(a))]
    /\ UNCHANGED last
    /\ UNCHANGED <<pool_vars, probed>>
    /\ UNCHANGED <<cache_vars, connection, archive, cover_reqs, covered_range, req,
                   new_range, sunk, resunk, ops, enq_log, taken, processed, wakes, reconnects>>

\* Line 45 without its test: every entry get_snapshots yields goes to the sink.
Wanted_unfiltered(entries, a, b) == entries

\* Line 45: the entries _cover hands to the sink.
Wanted(entries, a, b) == {ss \in entries : b > ss.time /\ ss.time >= a}

\* get_snapshots without lines 425-426.
swallowed_nothing(exc) == FALSE

\* Lines 425-426: what get_snapshots catches, to go on with the next hour.
swallowed(exc) == exc = "ConnectorException"

\* Lines 47-50: what _cover catches, to close and open the connection.
recovered(exc) == exc = "BadStatusLine"

\* What becomes of the loop when an hour is left with exc.
Fate(exc) ==
    IF exc = "none" \/ swallowed(exc) THEN "next"
    ELSE IF recovered(exc) THEN "reconnect"
    ELSE "dead"

\* Line 392 with < for <=: the hour of to_time is left out.
iter_hours_exclusive(current, to_time) == current < to_time

\* Line 392: _iter_hours goes on while the hour is not past floor(to_time).
iter_hours_continues(current, to_time) == current <= to_time

\* The result of a get_snapshots call run to its end: as Res, with the hours
\* visited, in order, what each of them yielded and the cache each found.
Run(c, fetches, exc, yielded, hours, batches, caches) ==
    [c |-> c, fetches |-> fetches, exc |-> exc, yielded |-> yielded,
     hours |-> hours, batches |-> batches, caches |-> caches]

\* Lines 422-426: the ways one hour of the loop of get_snapshots can end,
\* after the hours in acc, for the outcomes its requests can have.
get_snapshots_hour(acc, arch, current, conn) ==
    {LET r == get_snapshots_in_hour(acc.c, arch, current, outs)
     IN  Run(r.c, acc.fetches \o r.fetches, r.exc, acc.yielded \cup r.yielded,
             Append(acc.hours, current), Append(acc.batches, r.yielded),
             Append(acc.caches, acc.c))
     : outs \in Answers(conn, HourOutcomes)}

\* Lines 421-426: the ways the loop of get_snapshots can end, from the hour
\* current on.
RECURSIVE get_snapshots_loop(_, _, _, _, _)
get_snapshots_loop(acc, arch, current, to_time, conn) ==
    IF ~iter_hours_continues(current, to_time) THEN {acc}
    ELSE UNION {IF n.exc = "none" \/ swallowed(n.exc)
                THEN get_snapshots_loop([n EXCEPT !.exc = "none"], arch, current + 1,
                                        to_time, conn)
                ELSE {n}
                : n \in get_snapshots_hour(acc, arch, current, conn)}

\* get_snapshots(from_date, to_date), iterated to its end by the caller: the
\* ways the call can end.
get_snapshots(c, arch, from_date, to_date, conn) ==
    IF InvalidRange(normalize_time(from_date), normalize_time(to_date))
    THEN {Run(c, <<>>, "ValueError", {}, <<>>, <<>>, <<>>)}
    ELSE get_snapshots_loop(Run(c, <<>>, "none", {}, <<>>, <<>>, <<>>), arch,
                            get_hour(from_date), get_hour(to_date), conn)

\* HTTPConnector.get_snapshots(from_date, to_date), called directly and
\* iterated to its end, as mkmosaic.py does.
GetSnapshotsCall(from_date, to_date) ==
    /\ ops < MaxOps
    /\ ConnectorIdle
    /\ \E r \in get_snapshots(Cache, archive, from_date, to_date, connection) :
        /\ SetCache(r.c)
        /\ last' = [Event("get_snapshots") EXCEPT
                        !.from = normalize_time(from_date),
                        !.to = normalize_time(to_date),
                        !.fetches = r.fetches, !.exc = r.exc, !.yielded = r.yielded,
                        !.hours = r.hours, !.batches = r.batches, !.caches = r.caches]
        /\ probed' = probed \cup ProbesReturned(r.fetches, r.exc)
    /\ ops' = ops + 1
    /\ UNCHANGED pool_vars
    /\ UNCHANGED <<connection, archive, cover_reqs, covered_range, pc, req, todo,
                   new_range, gen, sunk, resunk, enq_log, taken, processed, wakes, reconnects, discovers>>

\* thpool = mpdummy.Pool(processes=3)
PoolSize == 3

\* A hand-over that waits for a free worker: the pool takes no more tasks
\* than it has workers.
apply_async_waiting(n, tasks, busy) == tasks + busy + n <= PoolSize

\* thpool.apply_async puts the task on the pool's queue, which has no bound,
\* and returns: n records can be handed over whatever the pool is doing.
apply_async(n, tasks, busy) == TRUE

HourEvent(r) ==
    [Event("hour") EXCEPT !.hour = gen.current, !.fetches = r.fetches, !.exc = r.exc,
                          !.fate = Fate(r.exc), !.yielded = r.yielded,
                          !.from = gen.from, !.to = gen.to]

\* One turn of the loop of get_snapshots (lines 421-426) with the body of
\* the loop of _cover (lines 44-46) for what it yields.
HourStep(fate) ==
    /\ pc = "hours"
    /\ iter_hours_continues(gen.current, get_hour(gen.to))
    /\ \E outs \in Answers(connection, HourOutcomes) :
        LET r == get_snapshots_in_hour(Cache, archive, gen.current, outs)
        IN  /\ Fate(r.exc) = fate
            /\ SetCache(r.c)
            /\ last' = HourEvent(r)
            /\ probed' = probed \cup ProbesReturned(r.fetches, r.exc)
            /\ IF sink = "pool"
               THEN /\ apply_async(Cardinality(Wanted(r.yielded, gen.from, gen.to)),
                                   pool_tasks, pool_busy)
                    /\ pool_tasks' = pool_tasks
                                        + Cardinality(Wanted(r.yielded, gen.from, gen.to))
               ELSE pool_tasks' = pool_tasks
            /\ UNCHANGED <<sink, pool_busy>>
            /\ sunk' = sunk \cup Wanted(r.yielded, gen.from, gen.to)
            /\ resunk' = resunk \cup (sunk \cap Wanted(r.yielded, gen.from, gen.to))

\* The hour is listed, or skipped, or its ConnectorException is swallowed.
HourDone ==
    /\ HourStep("next")
    /\ gen' = [gen EXCEPT !.current = @ + 1]
    /\ UNCHANGED <<connection, archive, cover_reqs, covered_range, pc, req, todo,
                   new_range, ops, enq_log, taken, processed, wakes, reconnects, discovers>>

\* Lines 47-50: BadStatusLine ends _cover after close() and connect().
HourBroken ==
    /\ HourStep("reconnect")
    /\ connection' = connect(close(connection))
    /\ reconnects' = TRUE
    /\ gen' = None
    /\ todo' = Tail(todo)
    /\ pc' = "call"
    /\ UNCHANGED <<archive, cover_reqs, covered_range, req,
                   new_range, ops, enq_log, taken, processed, wakes, discovers>>

\* Any other exception leaves _cover and async: the thread ends.
HourCrash ==
    /\ HourStep("dead")
    /\ gen' = None
    /\ pc' = "dead"
    /\ UNCHANGED <<connection, archive, cover_reqs, covered_range, req, todo,
                   new_range, ops, enq_log, taken, processed, wakes, reconnects, discovers>>

\* _iter_hours is past floor(to): get_snapshots ends and _cover returns.
CoverReturn ==
    /\ pc = "hours"
    /\ ~iter_hours_continues(gen.current, get_hour(gen.to))
    /\ gen' = None
    /\ todo' = Tail(todo)
    /\ pc' = "call"
    /\ UNCHANGED last
    /\ UNCHANGED <<pool_vars, probed>>
    /\ UNCHANGED <<cache_vars, connection, archive, cover_reqs, covered_range, req,
                   new_range, sunk, resunk, ops, enq_log, taken, processed, wakes, reconnects, discovers>>

\* Lines 61 and 66: the covered range is recorded, and back to line 54.
Covered ==
    /\ pc = "call"
    /\ todo = <<>>
    /\ covered_range' = new_range
    /\ pc' = "get"
    /\ last' = [Event("covered") EXCEPT !.req = <<req[1], req[2]>>, !.old = covered_range,
                                        !.calls = discovers]
    /\ UNCHANGED <<pool_vars, probed>>
    /\ UNCHANGED <<cache_vars, connection, archive, cover_reqs, req, todo, new_range,
                   gen, sunk, resunk, ops, enq_log, taken, processed, wakes, reconnects, discovers>>

Coordinator ==
    \/ Get
    \/ DrainCheck
    \/ DrainTake
    \/ Dispatch
    \/ CoverCall
    \/ HourDone
    \/ HourBroken
    \/ HourCrash
    \/ CoverReturn
    \/ Covered

Next ==
    \/ \E p \in CoverCalls : cover(p[1], p[2])
    \/ \E h \in ProbeHours, k \in Kinds : ProbeCall(h, k)
    \/ \E h \in ProbeHours : GetHoursCall(h, "snapshots")
    \/ \E p \in DiscoverCalls : GetSnapshotsCall(p[1], p[2])
    \/ Coordinator

Spec == Init /\ [][Next]_vars

\* The coordinator thread is scheduled as long as it can run.
FairSpec == Spec /\ WF_vars(Coordinator)

\* ------------------------------------------------------------- pool
\* A worker of the pool takes a task: put_up_snapshot starts for a record.
WorkerTake ==
    /\ pool_tasks > 0
    /\ pool_busy < PoolSize
    /\ pool_tasks' = pool_tasks - 1
    /\ pool_busy' = pool_busy + 1
    /\ UNCHANGED <<cache_vars, connection, archive, cover_reqs, covered_range, pc, req,
                   todo, new_range, gen, sunk, resunk, ops, enq_log, taken, processed,
                   wakes, reconnects, discovers, last, sink, probed>>

\* put_up_snapshot returns, if it ever does.
WorkerDone ==
    /\ pool_busy > 0
    /\ pool_busy' = pool_busy - 1
    /\ UNCHANGED <<cache_vars, connection, archive, cover_reqs, covered_range, pc, req,
                   todo, new_range, gen, sunk, resunk, ops, enq_log, taken, processed,
                   wakes, reconnects, discovers, last, sink, pool_tasks, probed>>

\* The collection as main() builds it: the sink hands every record to the pool.
PoolInit ==
    /\ existing_years = {} /\ existing_months = {} /\ existing_days = {}
    /\ missing_years = {} /\ missing_months = {} /\ missing_days = {}
    /\ connection = connect(NoConnection)
    /\ archive = FullArchive
    /\ cover_reqs = <<>>
    /\ covered_range = None
    /\ pc = "get"
    /\ req = None
    /\ todo = <<>>
    /\ new_range = None
    /\ gen = None
    /\ sunk = {} /\ resunk = {}
    /\ ops = 0 /\ enq_log = <<>> /\ taken = <<>> /\ processed = <<>>
    /\ wakes = 0 /\ reconnects = FALSE
    /\ discovers = <<>>
    /\ probed = {}
    /\ last = Event("init")
    /\ sink = "pool"
    /\ pool_tasks = 0 /\ pool_busy = 0

PoolNext ==
    \/ \E p \in WindowCalls : cover(p[1], p[2])
    \/ Coordinator
    \/ WorkerTake
    \/ WorkerDone

PoolSpec == PoolInit /\ [][PoolNext]_vars

\* ------------------------------------------------------------- properties
\* The step recorded in last is one hour of get_snapshots.
HourTaken == last.op = "hour"

\* That hour's listing was asked for, and answered with another status than 200.
HourRefused == HourTaken /\ last.fetches # <<>> /\ last.fetches[1].out = "non200"

\* The file was handed to the sink.
Delivered(f) == \E ss \in sunk : ss.file_name = f

AllRequestsInOrder == \A i \in 1..Len(enq_log) : enq_log[i][1] < enq_log[i][2]

\* C1: every record get_snapshots(a, b) yields has a timestamp t with
\* a <= t < b.
C1_YieldedWithinRange ==
    HourTaken => \A ss \in last.yielded : last.from <= ss.time /\ ss.time < last.to

\* C2: as long as every cover request has a < b, no record is handed to the
\* sink more than once.
C2_NoRedelivery == AllRequestsInOrder => resunk = {}

\* C2 witness: two overlapping requests were processed one after the other,
\* records of both were delivered, none twice.
C2_Witness ==
    /\ enq_log = <<<<1, 4>>, <<3, 6>>>>
    /\ processed = <<1, 2>>
    /\ pc = "get"
    /\ covered_range = <<1, 6>>
    /\ \E s1, s2 \in sunk : s1.time = 3 /\ s2.time = 4
    /\ resunk = {}

\* C3: every snapshot of the archive whose timestamp lies in the covered
\* range has been handed to the sink.
C3_CoveredRangeDiscovered ==
    covered_range # None =>
        \A f \in archive :
            (covered_range[1] <= SnapshotTime(f) /\ SnapshotTime(f) < covered_range[2])
                => Delivered(f)

\* Two requests were made, the second overlapping the end of the first, and
\* the coordinator has consumed both and waits again; last is the end of the
\* processing of the second.
TwoOverlappingConsumed ==
    /\ Len(enq_log) = 2
    /\ AllRequestsInOrder
    /\ enq_log[1][1] <= enq_log[2][1]
    /\ enq_log[2][1] <= enq_log[1][2]
    /\ enq_log[1][2] <= enq_log[2][2]
    /\ cover_reqs = <<>>
    /\ Len(taken) = 2
    /\ pc = "get"
    /\ last.op = "covered"

\* The get_snapshots call that covers what of request r lies after range old.
Uncovered(old, r) == IF old[2] < r[2] THEN <<<<old[2], r[2]>>>> ELSE <<>>

\* C4 as stated: for every interleaving, after the two requests are consumed
\* the covered range is their bounding union (from the start of the first to
\* the end of the second) and the only get_snapshots call for the second is
\* the one for the uncovered part.
C4_UnionForEveryInterleaving ==
    TwoOverlappingConsumed =>
        /\ covered_range = <<enq_log[1][1], enq_log[2][2]>>
        /\ last.calls = Uncovered(enq_log[1], enq_log[2])

\* C4 amended: that holds when the first request was processed before the
\* second was taken; when both were in the inbox at the end of a drain, only
\* the second is processed, and the covered range is the second's.
C4_UnionWhenProcessedInTurn ==
    TwoOverlappingConsumed =>
        \/ /\ processed = <<1, 2>>
           /\ covered_range = <<enq_log[1][1], enq_log[2][2]>>
           /\ last.calls = Uncovered(enq_log[1], enq_log[2])
        \/ /\ processed = <<2>>
           /\ covered_range = enq_log[2]
           /\ last.calls = <<enq_log[2]>>

\* C4 witness: cover(1, 4) then cover(3, 6), processed in turn: the range is
\* (1, 6) and the second request led to get_snapshots(4, 6) only.
C4_Witness ==
    /\ TwoOverlappingConsumed
    /\ enq_log = <<<<1, 4>>, <<3, 6>>>>
    /\ processed = <<1, 2>>
    /\ covered_range = <<1, 6>>
    /\ last.calls = <<<<4, 6>>>>

\* C5: processing a request equal to the covered range leaves the range as
\* it is and calls get_snapshots not once.
C5_IdenticalRequestIdempotent ==
    (last.op = "covered" /\ last.old # None /\ last.req = last.old) =>
        /\ covered_range = last.old
        /\ last.calls = <<>>

\* C5 witness: (1, 4) was covered and (1, 4) was processed again.
C5_Witness ==
    /\ last.op = "covered"
    /\ last.old = <<1, 4>>
    /\ last.req = <<1, 4>>
    /\ processed = <<1, 2>>

\* The requests taken from the inbox since the coordinator last woke up.
Woken == pc \in {"empty", "get_nowait"}

\* C6: requests leave the inbox in the order they were put in, each once;
\* every wake-up processes one request, the last one taken from the inbox,
\* and a request taken before it is never processed.
C6_LastRequestWins ==
    /\ taken = [i \in 1..Len(taken) |-> i]
    /\ \A i \in 1..Len(cover_reqs) : cover_reqs[i][3] = Len(taken) + i
    /\ Len(processed) = IF Woken THEN wakes - 1 ELSE wakes
    /\ \A i \in 1..Len(processed) : processed[i] \in 1..Len(taken)
    /\ \A i, j \in 1..Len(processed) : i < j => processed[i] < processed[j]
    /\ (wakes > 0 /\ ~Woken) => processed[Len(processed)] = Len(taken)
    /\ (wakes > 0) => req[3] = Len(taken)

\* C6 witness: two requests were in the inbox when the drain ended; the
\* second was processed, the first was not.
C6_Witness ==
    /\ Len(taken) = 2
    /\ wakes = 1
    /\ processed = <<2>>
    /\ pc = "get"
    /\ covered_range = <<enq_log[2][1], enq_log[2][2]>>

\* The step recorded in last is a probe or an hour of get_snapshots, for an
\* hour whose day was recorded missing, for the kind, before the step.
DayWasMissing ==
    /\ last.op \in {"hour", "probe"}
    /\ <<normalize_day(last.hour), last.kind>> \in last.before.md

\* Year and month of that hour were recorded, existing or missing, before the step.
CoarserWereRecorded ==
    /\ <<normalize_year(last.hour), last.kind>> \in last.before.ey \cup last.before.my
    /\ <<normalize_month(last.hour), last.kind>> \in last.before.em \cup last.before.mm

\* C7 as stated: once a (day, kind) is recorded missing, a probe or a
\* get_snapshots step for an hour of that day makes no request at all.
C7_NoFetchOnceDayMissing == DayWasMissing => last.fetches = <<>>

\* C7 amended: once a (day, kind) is recorded missing, a get_snapshots step
\* for an hour of that day makes no request; a probe never asks for the day's
\* directory, and makes no request at all when the year and the month of the
\* day are recorded for the kind.
C7_NoFetchOfMissingDay ==
    DayWasMissing =>
        /\ last.op = "hour" => last.fetches = <<>>
        /\ \A i \in 1..Len(last.fetches) : last.fetches[i].url.level \in {"year", "month"}
        /\ CoarserWereRecorded => last.fetches = <<>>

\* C7 witness: an hour of get_snapshots was skipped, without a request,
\* because its day was recorded missing.
C7_Witness ==
    /\ DayWasMissing
    /\ last.op = "hour"
    /\ last.fetches = <<>>
    /\ last.fate = "next"

\* The requests of the probe that followed the refused listing were all
\* answered, with whatever status.
ProbeAnswered ==
    \A i \in 2..Len(last.fetches) : last.fetches[i].out \in {"200", "non200"}

\* The listing of the hour was asked for and answered 200.
HourListed == HourTaken /\ last.fetches # <<>> /\ last.fetches[1].out = "200"

RefusedHourHandled == HourRefused /\ last.exc = "ConnectorException"

\* C9 as stated: once an hour whose listing was answered with another status
\* than 200 has been handled, its day is known missing.
C9_DayMarkedMissing ==
    RefusedHourHandled => is_day_missing(Cache, last.hour, "snapshots")

\* C9 amended: once that hour has been handled its day is known missing
\* exactly when a request of the probe (year, month or day directory) was
\* answered with another status than 200; otherwise year, month and day are
\* recorded existing.
C9_DayResolved ==
    RefusedHourHandled =>
        /\ is_day_missing(Cache, last.hour, "snapshots")
             <=> (Len(last.fetches) >= 2 /\ last.fetches[Len(last.fetches)].out = "non200")
        /\ ~is_day_missing(Cache, last.hour, "snapshots") =>
             /\ <<normalize_year(last.hour), "snapshots">> \in existing_years
             /\ <<normalize_month(last.hour), "snapshots">> \in existing_months
             /\ <<normalize_day(last.hour), "snapshots">> \in existing_days

\* C9 witness: the hour's listing was refused, the probe found year, month
\* and day: the day is recorded existing, not missing.
C9_Witness ==
    /\ RefusedHourHandled
    /\ Len(last.fetches) = 4
    /\ ~is_day_missing(Cache, last.hour, "snapshots")
    /\ <<normalize_day(last.hour), "snapshots">> \in existing_days

\* C10: once a BadStatusLine was handled the connection is open again and
\* the coordinator goes on running, to process the requests made afterwards.
C10_RunsOnAfterReconnect ==
    reconnects => (connection = "open" /\ pc # "dead")

\* An hour of get_snapshots, run for the coordinator, ended in a failure of
\* one of its requests: a status other than 200 (ConnectorException), a
\* broken status line, or a failure of the transport.
HourFailed == HourTaken /\ last.exc \in {"ConnectorException", "BadStatusLine", "error"}

\* C11: whatever failure a request produces while a cover request is
\* processed, the coordinator loop is still running afterwards.
C11_CoordinatorOutlivesErrors == HourFailed => pc # "dead"

\* The step recorded in last is a get_snapshots call of a caller's own.
Discovered == last.op = "get_snapshots"

\* C12: get_snapshots(a, b) with a >= b after normalization ends with
\* ValueError, whatever a and b are; it yields no record (and makes no request).
C12_InvalidRangeRaises ==
    (Discovered /\ last.from >= last.to) =>
        /\ last.exc = "ValueError"
        /\ last.yielded = {}
        /\ last.fetches = <<>>

\* C12 witness: get_snapshots was called with an empty range, and raised
C12_Witness ==
    /\ Discovered
    /\ last.from = 3 /\ last.to = 3
    /\ last.exc = "ValueError"

\* The step recorded in last is the end of the processing of a request
\* (a, b) that does not satisfy a < b.
InvalidRequestProcessed == last.op = "covered" /\ ~(last.req[1] < last.req[2])

\* C13: a cover request (a, b) without a < b is dropped: processing it calls
\* get_snapshots not once (so nothing reaches the sink) and leaves the covered
\* range as it was, None included.
C13_InvalidRequestDropped ==
    InvalidRequestProcessed =>
        /\ last.calls = <<>>
        /\ covered_range = last.old

\* C14: the covered range is None or a pair (start, end) with start <= end.
C14_CoveredRangeOrdered ==
    covered_range # None => covered_range[1] <= covered_range[2]

\* The month a day lies in and the year a month lies in, as cache keys.
MonthOfDay(day) == day \div DaysPerMonth
YearOfMonth(month) == month \div MonthsPerYear

\* No existing record lies under a coarser record that is missing, for the
\* same kind.
NestedConsistent ==
    /\ \A m \in existing_months : <<YearOfMonth(m[1]), m[2]>> \notin missing_years
    /\ \A d \in existing_days :
        /\ <<MonthOfDay(d[1]), d[2]>> \notin missing_months
        /\ <<YearOfMonth(MonthOfDay(d[1])), d[2]>> \notin missing_years

\* The days recorded both existing and missing.
BothDays == existing_days \cap missing_days

\* C15 as stated: no existing month under a missing year, no existing day
\* under a missing month or year, and no year, month or day recorded both
\* existing and missing.
C15_CacheNestedAndDisjoint ==
    /\ NestedConsistent
    /\ existing_years \cap missing_years = {}
    /\ existing_months \cap missing_months = {}
    /\ BothDays = {}

\* C15 amended: the same, except that a day can be recorded both existing and
\* missing, and becomes so only by a day listing (_get_hours) that is
\* refused for a day recorded existing; never by a probe or by get_snapshots.
C15_CacheNestedAndCoarseDisjoint ==
    [][/\ NestedConsistent'
       /\ existing_years' \cap missing_years' = {}
       /\ existing_months' \cap missing_months' = {}
       /\ BothDays' # BothDays =>
            (last'.op = "get_hours" /\ last'.exc = "ConnectorException")]_vars

\* C15 witness: a probe found the day, a listing of the day was then refused:
\* the day is recorded both existing and missing.
C15_Witness ==
    /\ last.op = "get_hours"
    /\ <<normalize_day(last.hour), "snapshots">> \in BothDays
    /\ <<normalize_month(last.hour), "snapshots">> \in existing_months

\* C16: a (year, kind), (month, kind) or (day, kind) recorded missing is
\* never removed, by whatever step: probe, get_snapshots, a day listing, or
\* the close() and connect() of the collector after a BadStatusLine.
C16_MissingPermanent ==
    [][/\ missing_years \subseteq missing_years'
       /\ missing_months \subseteq missing_months'
       /\ missing_days \subseteq missing_days']_vars

\* C16 witness: a day was recorded missing, and in a later hour the
\* collector closed and reopened the connection after a BadStatusLine: the
\* record is still there.
C16_Witness ==
    /\ reconnects
    /\ HourTaken
    /\ last.fate = "reconnect"
    /\ last.before.md # {}
    /\ last.before.md \subseteq missing_days

\* The archive has a file in the directory of that level and key.
Populated(arch, level, key) ==
    \E f \in arch :
        key = CASE level = "hour" -> HourOfFile(f)
                [] level = "day" -> normalize_day(HourOfFile(f))
                [] level = "month" -> normalize_month(HourOfFile(f))
                [] level = "year" -> normalize_year(HourOfFile(f))

\* The request was answered as the archive is: 200, or another status for a
\* directory that holds no file.
AnsweredTruly(f, arch) ==
    \/ f.out = "200"
    \/ f.out = "non200" /\ ~Populated(arch, f.url.level, f.url.key)

\* The step recorded in last is get_snapshots from the start of hour 0 to the
\* start of hour 2, on the archive whose only file lies in hour 1, with no
\* missing record in the cache before it and every request answered truly.
FixtureRun ==
    /\ archive = FixtureArchive
    /\ Discovered
    /\ last.from = 0 /\ last.to = 2 * HourLen
    /\ last.before.my = {} /\ last.before.mm = {} /\ last.before.md = {}
    /\ \A i \in 1..Len(last.fetches) : AnsweredTruly(last.fetches[i], archive)

\* C17: on that archive the call yields exactly one record; its timestamp is
\* the one of the file name, sub-second field included, and its URL is the
\* URL of the hour directory joined with the file name.
C17_FixtureRecord ==
    FixtureRun =>
        \E ss \in last.yielded :
            /\ last.yielded = {ss}
            /\ ss.file_name = <<HourLen, 123>>
            /\ Milliseconds(ss.time) = HourLen * 1000 + 123
            /\ ss.url = <<HourUrl(1), <<HourLen, 123>>>>

\* The coordinator is at work: not blocked on the empty inbox, not ended.
AtWork == pc \notin {"get", "dead"}

\* The coordinator is about to ask for the listing of an hour.
AtHourListing ==
    /\ pc = "hours"
    /\ gen.current <= get_hour(gen.to)
    /\ ~is_day_missing(Cache, gen.current, "snapshots")

\* The step of the coordinator in which the listing of the hour is answered
\* 200 and its records are handed to the sink.
HourAnswered == HourDone /\ last'.fetches # <<>> /\ last'.fetches[1].out = "200"

Min(x, y) == IF x <= y THEN x ELSE y
Max(x, y) == IF x >= y THEN x ELSE y

\* The half-open ranges c and o have an Instant in common.
Intersect(c, o) == Max(c[1], o[1]) < Min(c[2], o[2])

\* The step recorded in last is the end of the processing of a request
\* (a, b) with a < b while a range was covered.
MergeProcessed ==
    /\ last.op = "covered"
    /\ last.old # None
    /\ last.req[1] < last.req[2]

\* C19: processing (a, b), a < b, with (oldA, oldB) covered sets the covered
\* range to (min(a, oldA), max(b, oldB)) and calls get_snapshots on
\* (newA, oldA) and on (oldB, newB), each only when not empty, and on nothing
\* else: never on a range that intersects [oldA, oldB).
C19_MergeDiscoversDeltas ==
    MergeProcessed =>
        LET newA == Min(last.req[1], last.old[1])
            newB == Max(last.req[2], last.old[2])
        IN  /\ covered_range = <<newA, newB>>
            /\ last.calls =
                  (IF newA < last.old[1] THEN <<<<newA, last.old[1]>>>> ELSE <<>>)
                  \o (IF last.old[2] < newB THEN <<<<last.old[2], newB>>>> ELSE <<>>)
            /\ \A i \in 1..Len(last.calls) : ~Intersect(last.calls[i], last.old)

\* C19 witness: (1, 3) was covered and (4, 6), apart from it, was processed:
\* get_snapshots was called on (3, 6), the gap included, and (1, 6) is covered.
C19_Witness ==
    /\ MergeProcessed
    /\ last.old = <<1, 3>>
    /\ last.req = <<4, 6>>
    /\ last.calls = <<<<3, 6>>>>
    /\ covered_range = <<1, 6>>

\* The day, month or year of the hour was recorded missing in cache c, for
\* the kind snapshots.
KnownMissing(c, hour) ==
    \/ <<hour \div HoursPerDay, "snapshots">> \in c.md
    \/ <<(hour \div HoursPerDay) \div DaysPerMonth, "snapshots">> \in c.mm
    \/ <<((hour \div HoursPerDay) \div DaysPerMonth) \div MonthsPerYear, "snapshots">> \in c.my

\* The hours whose listing the call asked for, in the order of the requests.
ListingsAsked ==
    SelectSeq([i \in 1..Len(last.fetches) |->
                   IF last.fetches[i].url.level = "hour"
                   THEN last.fetches[i].url.key ELSE -1],
              LAMBDA k : k >= 0)

\* The hours the call visited that were not known missing when visited.
HoursNotMissing ==
    SelectSeq([i \in 1..Len(last.hours) |->
                   IF KnownMissing(last.caches[i], last.hours[i]) THEN -1 ELSE last.hours[i]],
              LAMBDA k : k >= 0)

\* C20: a get_snapshots(a, b) call visits the hours floor(a), floor(a) + 1,
\* ... in ascending order, each once, none after floor(b), and all of them up
\* to floor(b) when no exception ends it; it asks for the listing of exactly
\* the hours whose day is not known missing when they are visited, one
\* request after the other in that order; and each hour's records are
\* emitted when the hour is visited, so in ascending order of hours.
C20_HoursAscendingOnce ==
    (Discovered /\ last.exc # "ValueError") =>
        LET n == Len(last.hours)
            first == get_hour(last.from)
        IN  /\ n >= 1
            /\ last.hours = [i \in 1..n |-> first + i - 1]
            /\ first + n - 1 <= get_hour(last.to)
            /\ last.exc = "none" => first + n - 1 = get_hour(last.to)
            /\ ListingsAsked = HoursNotMissing
            /\ Len(last.batches) = n
            /\ \A i \in 1..n : \A ss \in last.batches[i] : get_hour(ss.time) = last.hours[i]

\* C20 witness: a call over three hours: the first was refused and its day
\* found missing, the second, of the same day, was passed over without a
\* request, the third, of the next day, yielded its records.
C20_Witness ==
    /\ Discovered
    /\ last.exc = "none"
    /\ last.hours = <<0, 1, 2>>
    /\ ListingsAsked = <<0, 2>>
    /\ last.batches[1] = {} /\ last.batches[2] = {} /\ last.batches[3] # {}

\* The place of a level in the walk of _probe_hour.
LevelRank(level) == CASE level = "year" -> 1 [] level = "month" -> 2 [] level = "day" -> 3

\* The existing and the missing records of a level in cache c.
ExistingAt(c, level) == CASE level = "year" -> c.ey [] level = "month" -> c.em [] level = "day" -> c.ed
MissingAt(c, level) == CASE level = "year" -> c.my [] level = "month" -> c.mm [] level = "day" -> c.md

\* The step recorded in last is a probe, or an hour of get_snapshots run for
\* the coordinator, for an hour of a day for which a probe of the same kind
\* had returned before.
ProbedBefore ==
    /\ last.op \in {"probe", "hour"}
    /\ <<normalize_day(last.hour), last.kind>> \in last.probed

\* C21: a probe makes at most three requests, for the year, the month and the
\* day in that order, none after one that is not answered 200, and records
\* the answer of each (existing for 200, missing for another status); once a
\* probe for a day and kind has returned, a later probe for an hour of that
\* day and kind, called directly or run after a refused listing, makes no
\* request and changes no cache set.
C21_ProbeFreeOnceResolved ==
    /\ last.op = "probe" =>
        LET f == last.fetches
        IN  /\ Len(f) <= 3
            /\ \A i, j \in 1..Len(f) :
                 i < j => LevelRank(f[i].url.level) < LevelRank(f[j].url.level)
            /\ \A i \in 1..Len(f) : i < Len(f) => f[i].out = "200"
            /\ \A i \in 1..Len(f) :
                 /\ f[i].out = "200" =>
                      <<f[i].url.key, last.kind>> \in ExistingAt(Cache, f[i].url.level)
                 /\ f[i].out = "non200" =>
                      <<f[i].url.key, last.kind>> \in MissingAt(Cache, f[i].url.level)
    /\ ProbedBefore =>
        /\ \A i \in 1..Len(last.fetches) : last.fetches[i].url.level = "hour"
        /\ Cache = last.before

\* C21 witness: a probe for hour 1 after a probe for hour 0, of the same
\* day, had returned in get_snapshots and found the day: no request.
C21_Witness ==
    /\ last.op = "probe"
    /\ last.hour = 1
    /\ last.kind = "snapshots"
    /\ ProbedBefore
    /\ processed # <<>>
    /\ <<0, "snapshots">> \in existing_days
    /\ last.fetches = <<>>

\* No more cover() call will be made, and the last one made had a < b.
LastIntentStated ==
    /\ ops = MaxOps
    /\ enq_log # <<>>
    /\ enq_log[Len(enq_log)][1] < enq_log[Len(enq_log)][2]

\* The inbox is empty and the covered range contains the last request made.
LastIntentHonoured ==
    /\ cover_reqs = <<>>
    /\ covered_range # None
    /\ covered_range[1] <= enq_log[Len(enq_log)][1]
    /\ enq_log[Len(enq_log)][2] <= covered_range[2]

\* C22: once the callers have made their last request (a, b), a < b, the
\* coordinator, scheduled fairly, reaches a state with the inbox empty and
\* [a, b) within the covered range; and it never processes a request made
\* before one it has processed already.
C22_LastIntentHonoured ==
    /\ LastIntentStated ~> LastIntentHonoured
    /\ [](\A i, j \in 1..Len(processed) : i < j => processed[i] < processed[j])

\* The records of cache c, of every level, existing and missing.
Records(c) == c.ey \cup c.em \cup c.ed \cup c.my \cup c.mm \cup c.md

\* C23: a probe for a kind asks only for directories of that kind and
\* records what it finds only under that kind.
C23_KindPartitions ==
    last.op = "probe" =>
        /\ \A i \in 1..Len(last.fetches) : last.fetches[i].url.kind = last.kind
        /\ \A rec \in Records(Cache) \ Records(last.before) : rec[2] = last.kind

\* C24: the get_nowait() that follows a 'not empty' answer always finds a
\* request, whenever the callers put theirs; and no request is lost: each one
\* made is either taken already or still in the inbox, in the order made, so
\* that one put after the last 'empty' answer waits there for the next round.
C24_DrainRaceFree ==
    /\ pc = "get_nowait" => cover_reqs # <<>>
    /\ taken \o [i \in 1..Len(cover_reqs) |-> cover_reqs[i][3]]
         = [i \in 1..Len(enq_log) |-> i]
    /\ \A i \in 1..Len(cover_reqs) :
         <<cover_reqs[i][1], cover_reqs[i][2]>> = enq_log[cover_reqs[i][3]]

\* C24 witness: the first request is being processed, the drain having found
\* the inbox empty; the second, put after that, is in the inbox.
C24_Witness ==
    /\ pc = "hours"
    /\ taken = <<1>>
    /\ processed = <<1>>
    /\ Len(cover_reqs) = 1
    /\ cover_reqs[1][3] = 2
====
